---- MODULE Spec2Model ----
(***************************************************************************)
(* Model of go-hterrors (src/errors.go): the status classifiers, the       *)
(* message extractor, the StatusError rendering and the check entry        *)
(* points CheckResponse, CheckStatus, CheckStatusOneOf and Check.          *)
(*                                                                         *)
(* A Go string is a sequence of one-character strings, so that the         *)
(* substring, prefix, index and slice operations of the code are computed  *)
(* and not assumed.                                                        *)
(***************************************************************************)
EXTENDS Integers, Sequences, FiniteSets, TLC

VARIABLES
    resp,         \* the *http.Response handed to the entry point
    terr,         \* the transport error handed to Check along with resp
    bodyPos,      \* number of bytes of resp.Body read so far
    bodyEOF,      \* resp.Body has reported end of stream to a reader
    bodyReaders,  \* number of read passes made over resp.Body
    bodyCloses,   \* number of calls of resp.Body.Close
    pc,           \* "received", "done" (entry point returned), "rendered"
    call,         \* the entry point invoked and its arguments
    retResp,      \* the response returned (Check only)
    retErr,       \* the error returned
    rendered,     \* text of retErr.Err.Error() once pc = "rendered"
    gen           \* the parts the response body was assembled from

vars == <<resp, terr, bodyPos, bodyEOF, bodyReaders, bodyCloses, pc, call,
          retResp, retErr, rendered, gen>>

-----------------------------------------------------------------------------
\* Bounds of the model.

\* number of fragments a StatusError message is assembled from
MaxFragments == 2
\* length of the expectedStatuses list of CheckStatusOneOf
MaxCodes == 2
\* number of key-value pairs of a JSON body
MaxPairs == 2

-----------------------------------------------------------------------------
\* Go values.

NilErr == [kind |-> "nil"]
NilResp == [kind |-> "nil"]
NilBody == [kind |-> "nil"]
NilRequest == [kind |-> "nil"]

Min(a, b) == IF a <= b THEN a ELSE b

\* s[i:] and s[i:j] of Go, with Go's 0-based offsets.
SliceFrom(s, i) == SubSeq(s, i + 1, Len(s))
Slice(s, i, j) == SubSeq(s, i + 1, j)

\* strings.HasPrefix
HasPrefix(s, prefix) ==
    Len(s) >= Len(prefix) /\ SubSeq(s, 1, Len(prefix)) = prefix

\* strings.Contains
Contains(s, substr) ==
    \E i \in 0..Len(s) :
        i + Len(substr) <= Len(s) /\ Slice(s, i, i + Len(substr)) = substr

\* strings.IndexRune: 0-based offset of the first c in s, -1 when there is none
IndexRune(s, c) ==
    IF \E i \in 1..Len(s) : s[i] = c
    THEN (CHOOSE i \in 1..Len(s) : s[i] = c /\ \A j \in 1..(i - 1) : s[j] # c) - 1
    ELSE -1

RECURSIVE Concat(_)
\* concatenation of a sequence of strings
Concat(ss) == IF ss = <<>> THEN <<>> ELSE Head(ss) \o Concat(Tail(ss))

RECURSIVE Join(_, _)
\* strings.Join
Join(elems, sep) ==
    IF elems = <<>> THEN <<>>
    ELSE IF Len(elems) = 1 THEN Head(elems)
    ELSE Head(elems) \o sep \o Join(Tail(elems), sep)

Digits == <<"0", "1", "2", "3", "4", "5", "6", "7", "8", "9">>

RECURSIVE DecNat(_)
DecNat(n) == IF n < 10 THEN <<Digits[n + 1]>> ELSE DecNat(n \div 10) \o <<Digits[(n % 10) + 1]>>

\* fmt.Sprintf("%d", n)
SprintfD(n) == IF n < 0 THEN <<"-">> \o DecNat(0 - n) ELSE DecNat(n)

\* http.StatusText: the reason phrase of the registered codes, "" otherwise
StatusText(code) ==
    CASE code = 100 -> <<"C","o","n","t","i","n","u","e">>
      [] code = 200 -> <<"O","K">>
      [] code = 204 -> <<"N","o"," ","C","o","n","t","e","n","t">>
      [] code = 300 -> <<"M","u","l","t","i","p","l","e"," ","C","h","o","i","c","e","s">>
      [] code = 400 -> <<"B","a","d"," ","R","e","q","u","e","s","t">>
      [] code = 404 -> <<"N","o","t"," ","F","o","u","n","d">>
      [] code = 500 -> <<"I","n","t","e","r","n","a","l"," ","S","e","r","v","e","r"," ","E","r","r","o","r">>
      [] OTHER -> <<>>

-----------------------------------------------------------------------------
\* Characters.

\* unicode.IsSpace, over the characters of the model
IsSpace(c) == c \in {" ", "\t", "\n", "\r"}

UpperCase == <<"A","B","C","D","E","F","G","H","I","J","K","L","M","N","O","P","Q","R","S","T","U","V","W","X","Y","Z">>
LowerCase == <<"a","b","c","d","e","f","g","h","i","j","k","l","m","n","o","p","q","r","s","t","u","v","w","x","y","z">>

ToLowerChar(c) ==
    IF \E i \in 1..26 : UpperCase[i] = c
    THEN LowerCase[CHOOSE i \in 1..26 : UpperCase[i] = c]
    ELSE c

\* strings.ToLower
ToLower(s) == [i \in 1..Len(s) |-> ToLowerChar(s[i])]

\* the printable ASCII characters in code order, from 0x20 (space) to 0x5f
AsciiLow ==
    <<" ","!","\"","#","$","%","&","'","(",")","*","+",",","-",".","/","0","1","2","3","4","5","6","7","8","9",":",";","<","=",">","?">> \o
    <<"@">> \o <<"A","B","C","D","E","F","G","H","I","J","K","L","M","N","O","P","Q","R","S","T","U","V","W","X","Y","Z">> \o <<"[", "\\", "]">> \o <<"^","_">>

\* the printable ASCII characters in code order, from 0x61 (a) to 0x7e
AsciiHigh == <<"a","b","c","d","e","f","g","h","i","j","k","l","m","n","o","p","q","r","s","t","u","v","w","x","y","z","{","|","}","~">>

\* the byte value of a character
Ord(c) ==
    CASE c = "\t" -> 9
      [] c = "\n" -> 10
      [] c = "\r" -> 13
      [] \E i \in 1..Len(AsciiLow) : AsciiLow[i] = c ->
            31 + (CHOOSE i \in 1..Len(AsciiLow) : AsciiLow[i] = c)
      [] OTHER -> 96 + (CHOOSE i \in 1..Len(AsciiHigh) : AsciiHigh[i] = c)

RECURSIVE StrLess(_, _)
\* a < b of Go strings: byte-wise lexicographic order
StrLess(a, b) ==
    IF b = <<>> THEN FALSE
    ELSE IF a = <<>> THEN TRUE
    ELSE IF Head(a) = Head(b) THEN StrLess(Tail(a), Tail(b))
    ELSE Ord(Head(a)) < Ord(Head(b))

RECURSIVE SortStrings(_)
\* sort.Strings, of the set of the elements of the slice
SortStrings(S) ==
    IF S = {} THEN <<>>
    ELSE LET m == CHOOSE x \in S : \A y \in S \ {x} : StrLess(x, y)
         IN  <<m>> \o SortStrings(S \ {m})

RECURSIVE TrimLeft(_)
\* strings.TrimLeftFunc(s, unicode.IsSpace)
TrimLeft(s) == IF s # <<>> /\ IsSpace(Head(s)) THEN TrimLeft(Tail(s)) ELSE s

RECURSIVE TrimRight(_)
TrimRight(s) ==
    IF s # <<>> /\ IsSpace(s[Len(s)]) THEN TrimRight(SubSeq(s, 1, Len(s) - 1)) ELSE s

\* strings.TrimSpace
TrimSpace(s) == TrimRight(TrimLeft(s))

-----------------------------------------------------------------------------
\* mime.ParseMediaType, as far as extractMessage uses it: the media type and
\* whether an error is returned.

\* isTokenChar of package mime
IsTokenChar(c) ==
    /\ ~IsSpace(c)
    /\ c \notin {"(", ")", "<", ">", "@", ",", ";", ":", "\\", "\"", "/", "[", "]", "?", "="}

RECURSIVE TokenLen(_)
\* length of the longest prefix of s made of token characters
TokenLen(s) == IF s # <<>> /\ IsTokenChar(Head(s)) THEN 1 + TokenLen(Tail(s)) ELSE 0

\* consumeToken
consumeToken(v) ==
    [token |-> SubSeq(v, 1, TokenLen(v)), rest |-> SliceFrom(v, TokenLen(v))]

\* the subtype part of checkMediaTypeDisposition, st the token consumed
\* after the slash
SubtypeOK(st) == st.token # <<>> /\ st.rest = <<>>

\* the type part of checkMediaTypeDisposition, t the first token consumed
TypeOK(t) ==
    IF t.token = <<>> THEN FALSE
    ELSE IF t.rest = <<>> THEN TRUE
    ELSE IF ~HasPrefix(t.rest, <<"/">>) THEN FALSE
    ELSE SubtypeOK(consumeToken(SliceFrom(t.rest, 1)))

\* checkMediaTypeDisposition: TRUE when the media type is well formed
checkMediaTypeDisposition(s) == TypeOK(consumeToken(s))

\* consumeMediaParam from the parameter value on: p the name consumed, val
\* the value consumed
ParamValue(v, p, val) ==
    IF val.token = <<>> THEN [key |-> <<>>, value |-> <<>>, rest |-> v]
    ELSE [key |-> ToLower(p.token), value |-> val.token, rest |-> val.rest]

\* consumeMediaParam from the "=" on: p the name consumed, r2 what follows it
ParamEquals(v, p, r2) ==
    IF p.token = <<>> \/ ~HasPrefix(r2, <<"=">>)
    THEN [key |-> <<>>, value |-> <<>>, rest |-> v]
    ELSE ParamValue(v, p, consumeToken(TrimLeft(SliceFrom(r2, 1))))

\* consumeMediaParam from the name on
ParamName(v, p) == ParamEquals(v, p, TrimLeft(p.rest))

\* consumeMediaParam from the ";" on: r1 is v without leading space
ParamSemi(v, r1) ==
    IF ~HasPrefix(r1, <<";">>) THEN [key |-> <<>>, value |-> <<>>, rest |-> v]
    ELSE ParamName(v, consumeToken(TrimLeft(SliceFrom(r1, 1))))

\* consumeMediaParam, for unquoted parameter values
consumeMediaParam(v) == ParamSemi(v, TrimLeft(v))

RECURSIVE ParseParams(_, _)
RECURSIVE ParseParam(_, _)

\* one turn of the parameter loop, p the parameter consumed
ParseParam(p, pmap) ==
    IF p.key = <<>> THEN TrimSpace(p.rest) = <<";">>
    ELSE IF p.key \in DOMAIN pmap /\ pmap[p.key] # p.value THEN FALSE
    ELSE ParseParams(p.rest,
                     [k \in DOMAIN pmap \cup {p.key} |->
                         IF k = p.key THEN p.value ELSE pmap[k]])

\* the parameter loop of ParseMediaType: TRUE when it ends without error
ParseParams(v, pmap) ==
    IF TrimLeft(v) = <<>> THEN TRUE ELSE ParseParam(consumeMediaParam(TrimLeft(v)), pmap)

\* ParseMediaType from the check of the media type on
ParseMediaTypeRest(mediatype, rest) ==
    IF ~checkMediaTypeDisposition(mediatype)
    THEN [mediatype |-> <<>>, err |-> TRUE]
    ELSE IF ~ParseParams(rest, <<>>)
    THEN [mediatype |-> mediatype, err |-> TRUE]
    ELSE [mediatype |-> mediatype, err |-> FALSE]

\* ParseMediaType with the offset i of the first ";" of v (-1: none)
ParseMediaTypeAt(v, i) ==
    ParseMediaTypeRest(TrimSpace(ToLower(IF i = -1 THEN v ELSE Slice(v, 0, i))),
                       IF i = -1 THEN <<>> ELSE SliceFrom(v, i))

ParseMediaType(v) == ParseMediaTypeAt(v, IndexRune(v, ";"))

-----------------------------------------------------------------------------
\* encoding/json: (*Decoder).Decode of the first value of the body into a
\* map[string]interface{}.  Strings carry no escapes and numbers are
\* unsigned integers; the error texts are shortened to their kind.

ErrEOF == <<"E","O","F">>
ErrUnexpectedEOF == <<"u","n","e","x","p","e","c","t","e","d"," ","E","O","F">>
ErrSyntax == <<"i","n","v","a","l","i","d"," ","c","h","a","r","a","c","t","e","r">>
ErrUnmarshalType == <<"j","s","o","n",":"," ","c","a","n","n","o","t"," ","u","n","m","a","r","s","h","a","l"," ","i","n","t","o"," ","G","o"," ","v","a","l","u","e"," ","o","f"," ","t","y","p","e"," ","m","a","p","[","s","t","r","i","n","g","]","i","n","t","e","r","f","a","c","e"," ","{","}">>

\* a scan that failed on the character at offset i (1-based)
SyntaxErr(i) == [err |-> ErrSyntax, at |-> i, eof |-> FALSE]
\* a scan that ran out of input
EOFErr(s) == [err |-> ErrUnexpectedEOF, at |-> Len(s), eof |-> TRUE]
\* a scanned value, and the offset of the character after it
Scanned(val, next) == [err |-> <<>>, val |-> val, next |-> next]

RECURSIVE SkipWS(_, _)
\* offset of the first character at or after i that is not JSON white space
SkipWS(s, i) == IF i <= Len(s) /\ IsSpace(s[i]) THEN SkipWS(s, i + 1) ELSE i

IsDigit(c) == \E d \in 1..10 : Digits[d] = c
DigitVal(c) == (CHOOSE d \in 1..10 : Digits[d] = c) - 1

RECURSIVE ParseNat(_, _)
ParseNat(ds, acc) ==
    IF ds = <<>> THEN acc ELSE ParseNat(Tail(ds), 10 * acc + DigitVal(Head(ds)))

RECURSIVE DigitRun(_, _)
\* number of digits from offset i on
DigitRun(s, i) == IF i <= Len(s) /\ IsDigit(s[i]) THEN 1 + DigitRun(s, i + 1) ELSE 0

\* a JSON string starting at the quote at offset i
ScanString(s, i) ==
    IF \E j \in (i + 1)..Len(s) : s[j] = "\""
    THEN LET j == CHOOSE j \in (i + 1)..Len(s) :
                    s[j] = "\"" /\ \A k \in (i + 1)..(j - 1) : s[k] # "\""
         IN  Scanned([type |-> "string", str |-> SubSeq(s, i + 1, j - 1)], j + 1)
    ELSE EOFErr(s)

\* a JSON number starting at the digit at offset i
ScanNumber(s, i) ==
    LET n == IF s[i] = "0" THEN 1 ELSE DigitRun(s, i)
    IN  Scanned([type |-> "number", num |-> ParseNat(SubSeq(s, i, i + n - 1), 0)], i + n)

\* one of the literals null, true, false starting at offset i
ScanLiteral(s, i, lit, val) ==
    LET common == CHOOSE k \in 0..Len(lit) :
                      /\ i + k - 1 <= Len(s)
                      /\ SubSeq(s, i, i + k - 1) = SubSeq(lit, 1, k)
                      /\ (k = Len(lit) \/ i + k > Len(s) \/ s[i + k] # lit[k + 1])
    IN  IF common = Len(lit) THEN Scanned(val, i + Len(lit))
        ELSE IF i + common > Len(s) THEN EOFErr(s)
        ELSE SyntaxErr(i + common)

RECURSIVE ScanValue(_, _)
RECURSIVE ScanMembers(_, _, _)
RECURSIVE MemberKey(_, _, _)
RECURSIVE MemberColon(_, _, _, _)
RECURSIVE MemberValue(_, _, _, _)
RECURSIVE MemberNext(_, _, _)
RECURSIVE ScanElements(_, _, _)
RECURSIVE ElementValue(_, _, _)
RECURSIVE ElementNext(_, _, _)

\* doc[k] = v of a Go map
MapPut(doc, k, v) == [x \in DOMAIN doc \cup {k} |-> IF x = k THEN v ELSE doc[x]]

\* the members of an object from the key at offset j on; doc holds the
\* members decoded so far, a later key replacing an earlier equal one
ScanMembers(s, j, doc) ==
    IF j > Len(s) THEN EOFErr(s)
    ELSE IF s[j] # "\"" THEN SyntaxErr(j)
    ELSE MemberKey(s, ScanString(s, j), doc)

\* ... after the key has been scanned
MemberKey(s, key, doc) ==
    IF key.err # <<>> THEN key
    ELSE MemberColon(s, key.val.str, SkipWS(s, key.next), doc)

\* ... at the offset c where the colon is due
MemberColon(s, k, c, doc) ==
    IF c > Len(s) THEN EOFErr(s)
    ELSE IF s[c] # ":" THEN SyntaxErr(c)
    ELSE MemberValue(s, k, ScanValue(s, SkipWS(s, c + 1)), doc)

\* ... after the value of key k has been scanned
MemberValue(s, k, v, doc) ==
    IF v.err # <<>> THEN v
    ELSE MemberNext(s, SkipWS(s, v.next), MapPut(doc, k, v.val))

\* ... at the offset m where a comma or the closing brace is due
MemberNext(s, m, doc) ==
    IF m > Len(s) THEN EOFErr(s)
    ELSE IF s[m] = "," THEN ScanMembers(s, SkipWS(s, m + 1), doc)
    ELSE IF s[m] = "}" THEN Scanned([type |-> "object", members |-> doc], m + 1)
    ELSE SyntaxErr(m)

\* the elements of an array from the value at offset j on
ScanElements(s, j, elems) == ElementValue(s, ScanValue(s, j), elems)

\* ... after an element has been scanned
ElementValue(s, v, elems) ==
    IF v.err # <<>> THEN v
    ELSE ElementNext(s, SkipWS(s, v.next), Append(elems, v.val))

\* ... at the offset m where a comma or the closing bracket is due
ElementNext(s, m, elems) ==
    IF m > Len(s) THEN EOFErr(s)
    ELSE IF s[m] = "," THEN ScanElements(s, SkipWS(s, m + 1), elems)
    ELSE IF s[m] = "]" THEN Scanned([type |-> "array", elems |-> elems], m + 1)
    ELSE SyntaxErr(m)

\* an object or array whose first character after the opening one is at j
ScanComposite(s, open, j) ==
    IF j > Len(s) THEN EOFErr(s)
    ELSE IF open = "{"
    THEN IF s[j] = "}" THEN Scanned([type |-> "object", members |-> <<>>], j + 1)
         ELSE ScanMembers(s, j, <<>>)
    ELSE IF s[j] = "]" THEN Scanned([type |-> "array", elems |-> <<>>], j + 1)
         ELSE ScanElements(s, j, <<>>)

\* the JSON value starting at offset i
ScanValue(s, i) ==
    IF i > Len(s) THEN EOFErr(s)
    ELSE CASE s[i] = "\"" -> ScanString(s, i)
           [] IsDigit(s[i]) -> ScanNumber(s, i)
           [] s[i] = "n" -> ScanLiteral(s, i, <<"n","u","l","l">>, [type |-> "null"])
           [] s[i] = "t" -> ScanLiteral(s, i, <<"t","r","u","e">>, [type |-> "bool", b |-> TRUE])
           [] s[i] = "f" -> ScanLiteral(s, i, <<"f","a","l","s","e">>, [type |-> "bool", b |-> FALSE])
           [] s[i] \in {"{", "["} -> ScanComposite(s, s[i], SkipWS(s, i + 1))
           [] OTHER -> SyntaxErr(i)

\* what the decoder has read once the value v is scanned: a number or a
\* literal is complete only with the byte after it or the end of the stream,
\* a value that ends with a brace, bracket or quote is complete as it ends
ReadFor(body, v) ==
    IF v.val.type \in {"number", "null", "bool"}
    THEN [minPos |-> Min(v.next, Len(body)), eof |-> v.next > Len(body)]
    ELSE [minPos |-> v.next - 1, eof |-> FALSE]

\* the unmarshalling of the scanned value v into the map
Unmarshal(v, read) ==
    CASE v.val.type = "object" ->
           [err |-> <<>>, isNil |-> FALSE, doc |-> v.val.members,
            minPos |-> read.minPos, eof |-> read.eof]
      [] v.val.type = "null" ->
           [err |-> <<>>, isNil |-> TRUE, doc |-> <<>>,
            minPos |-> read.minPos, eof |-> read.eof]
      [] OTHER ->
           [err |-> ErrUnmarshalType, minPos |-> read.minPos, eof |-> read.eof]

\* Decode once the first value has been scanned
DecodeValue(body, v) ==
    IF v.err # <<>> THEN [err |-> v.err, minPos |-> v.at, eof |-> v.eof]
    ELSE Unmarshal(v, ReadFor(body, v))

\* Decode from the first character that is not white space
DecodeAt(body, i) ==
    IF i > Len(body) THEN [err |-> ErrEOF, minPos |-> Len(body), eof |-> TRUE]
    ELSE DecodeValue(body, ScanValue(body, i))

\* json.NewDecoder(body).Decode(&doc).  err is "" on success; isNil tells a
\* nil map from a map; minPos is the number of bytes the decoder must have
\* read and eof whether it must have met the end of the stream.
Decode(body) == DecodeAt(body, SkipWS(body, 1))

RECURSIVE StripZeros(_)
StripZeros(ds) ==
    IF Len(ds) > 1 /\ ds[Len(ds)] = "0" THEN StripZeros(SubSeq(ds, 1, Len(ds) - 1)) ELSE ds

\* fmt's %v of a float64 holding a natural number: %g with the shortest
\* representation, the exponent form from 1e+06 on
FormatFloat(n) ==
    LET ds == DecNat(n)
        exp == Len(ds) - 1
        mant == StripZeros(ds)
    IN  IF exp < 6 THEN ds
        ELSE <<Head(mant)>> \o (IF Len(mant) > 1 THEN <<".">> \o Tail(mant) ELSE <<>>)
             \o <<"e","+">> \o (IF exp < 10 THEN <<"0">> ELSE <<>>) \o DecNat(exp)

RECURSIVE FormatV(_)
RECURSIVE FormatMap(_, _)

\* fmt's %v of a map, keys being its keys in sorted order
FormatMap(members, keys) ==
    <<"m","a","p","[">> \o
    Join([i \in 1..Len(keys) |-> keys[i] \o <<":">> \o FormatV(members[keys[i]])], <<" ">>)
    \o <<"]">>

\* fmt's %v of a decoded JSON value
FormatV(v) ==
    CASE v.type = "string" -> v.str
      [] v.type = "number" -> FormatFloat(v.num)
      [] v.type = "null" -> <<"<","n","i","l",">">>
      [] v.type = "bool" -> IF v.b THEN <<"t","r","u","e">> ELSE <<"f","a","l","s","e">>
      [] v.type = "array" ->
            <<"[">> \o Join([i \in 1..Len(v.elems) |-> FormatV(v.elems[i])], <<" ">>) \o <<"]">>
      [] v.type = "object" -> FormatMap(v.members, SortStrings(DOMAIN v.members))

-----------------------------------------------------------------------------
\* The text/html branch.

RECURSIVE HTML2TextFrom(_, _)
RECURSIVE HTMLTag(_, _, _)

\* writeSpace: one space, unless the output is empty or ends with one
writeSpace(out) ==
    IF out # <<>> /\ out[Len(out)] # " " THEN Append(out, " ") ELSE out

\* what a tag named tag writes
TagText(tag) == IF tag \in {<<"b","r">>, <<"b","r","/">>} THEN <<"\r","\n">> ELSE <<>>

\* the conversion from a tag on, close the offset of its ">" (-1: none)
HTMLTag(s, out, close) ==
    IF close = -1 THEN out
    ELSE HTML2TextFrom(SliceFrom(s, close + 1),
                       out \o TagText(ToLower(Slice(s, 1, close))))

\* the conversion of the rest s of the input, out the text written so far
HTML2TextFrom(s, out) ==
    IF s = <<>> THEN out
    ELSE IF IsSpace(Head(s)) THEN HTML2TextFrom(Tail(s), writeSpace(out))
    ELSE IF Head(s) = "<" THEN HTMLTag(s, out, IndexRune(s, ">"))
    ELSE HTML2TextFrom(Tail(s), Append(out, Head(s)))

\* html2text.HTML2Text of k3a/html2text, reduced to what the bodies of the
\* model need: white space in the input is written as one space, a tag is
\* dropped, <br> writes a line break; an unterminated tag drops the rest
HTML2Text(s) == HTML2TextFrom(s, <<>>)

RECURSIVE MatchNL(_)
\* length of the longest match of (\r?\n)+ at the start of s
MatchNL(s) ==
    IF s # <<>> /\ Head(s) = "\n" THEN 1 + MatchNL(Tail(s))
    ELSE IF Len(s) >= 2 /\ s[1] = "\r" /\ s[2] = "\n" THEN 2 + MatchNL(SliceFrom(s, 2))
    ELSE 0

RECURSIVE nlreReplaceAll(_, _)
RECURSIVE nlreReplaceAt(_, _, _)

\* ... n the length of the match of nlre at the start of s
nlreReplaceAt(s, repl, n) ==
    IF n > 0 THEN repl \o nlreReplaceAll(SliceFrom(s, n), repl)
    ELSE <<Head(s)>> \o nlreReplaceAll(Tail(s), repl)

\* nlre.ReplaceAllString(s, repl)
nlreReplaceAll(s, repl) == IF s = <<>> THEN <<>> ELSE nlreReplaceAt(s, repl, MatchNL(s))

RECURSIVE SpaceRun(_)
\* number of leading white space characters of s
SpaceRun(s) == IF s # <<>> /\ IsSpace(Head(s)) THEN 1 + SpaceRun(Tail(s)) ELSE 0

RECURSIVE spaceReplaceAll(_, _)
RECURSIVE spaceReplaceAt(_, _, _)

\* ... n the number of white space characters at the start of s
spaceReplaceAt(s, repl, n) ==
    IF n >= 2 THEN repl \o spaceReplaceAll(SliceFrom(s, n), repl)
    ELSE <<Head(s)>> \o spaceReplaceAll(Tail(s), repl)

\* space.ReplaceAllString(s, repl)
spaceReplaceAll(s, repl) == IF s = <<>> THEN <<>> ELSE spaceReplaceAt(s, repl, SpaceRun(s))

-----------------------------------------------------------------------------
\* extractMessage

TextPlain == <<"t","e","x","t","/","p","l","a","i","n">>
TextHTML == <<"t","e","x","t","/","h","t","m","l">>
ApplicationJSON == <<"a","p","p","l","i","c","a","t","i","o","n","/","j","s","o","n">>

\* mtype after the error check of extractMessage
MediaTypeOrText(parsed) == IF parsed.err THEN TextPlain ELSE parsed.mediatype

\* the rewriting of a vendor type at its last "+"
VendorRewrite_LastPlus(mtype, i) ==
    IF i # -1
    THEN <<"a","p","p","l","i","c","a","t","i","o","n","/">> \o
         SliceFrom(mtype, CHOOSE j \in 1..Len(mtype) :
                              mtype[j] = "+" /\ \A k \in (j + 1)..Len(mtype) : mtype[k] # "+")
    ELSE mtype

\* the rewriting of a vendor type, i the offset of its first "+" (-1: none)
VendorRewrite(mtype, i) ==
    IF i # -1 THEN <<"a","p","p","l","i","c","a","t","i","o","n","/">> \o SliceFrom(mtype, i + 1) ELSE mtype

\* the vendor type test of extractMessage
VendorType(mtype) ==
    IF HasPrefix(mtype, <<"a","p","p","l","i","c","a","t","i","o","n","/","v","n","d",".">>)
    THEN VendorRewrite(mtype, IndexRune(mtype, "+"))
    ELSE mtype

\* the media type the switch of extractMessage dispatches on
NormalizedType(contentType) == VendorType(MediaTypeOrText(ParseMediaType(contentType)))

\* the fields of the JSON branch, in the order given by keys
JSONFields(doc, keys) ==
    [i \in 1..Len(keys) |-> keys[i] \o <<":"," ">> \o FormatV(doc[keys[i]])]

RECURSIVE Reverse(_)
Reverse(s) == IF s = <<>> THEN <<>> ELSE Reverse(Tail(s)) \o <<Head(s)>>

\* the keys of doc, in descending order
SortedKeys_Descending(doc) == Reverse(SortStrings(DOMAIN doc))

\* the keys of doc, sorted
SortedKeys(doc) == SortStrings(DOMAIN doc)

\* the application/json branch, d the outcome of Decode
JSONBranch(d) ==
    [msg |-> IF d.err # <<>>
             THEN <<"<","i","n","v","a","l","i","d"," ","j","s","o","n"," ","i","n"," ","r","e","s","p","o","n","s","e"," ","b","o","d","y",":"," ">> \o d.err \o <<">">>
             ELSE Join(JSONFields(d.doc, SortedKeys(d.doc)), <<","," ">>),
     branch |-> "application/json", reads |-> 1, minPos |-> d.minPos, eof |-> d.eof]

\* the text/html branch
HTMLBranch(body) ==
    [msg |-> spaceReplaceAll(nlreReplaceAll(TrimSpace(HTML2Text(body)), <<":"," ">>), <<" ">>),
     branch |-> "text/html", reads |-> 1, minPos |-> Len(body), eof |-> TRUE]

\* the switch of extractMessage
Switch(mtype, body) ==
    CASE mtype = TextPlain ->
           [msg |-> body, branch |-> "text/plain", reads |-> 1,
            minPos |-> Len(body), eof |-> TRUE]
      [] mtype = TextHTML -> HTMLBranch(body)
      [] mtype = ApplicationJSON -> JSONBranch(Decode(body))
      [] OTHER ->
           [msg |-> <<>>, branch |-> "default", reads |-> 0, minPos |-> 0, eof |-> FALSE]

\* extractMessage(resp): the digest msg, the branch of the switch taken, the
\* number of read passes over the body (reads), and what the pass must have
\* read: minPos bytes, and the end of the stream when eof
extractMessage(r) == Switch(NormalizedType(r.ContentType), r.Body.data)

-----------------------------------------------------------------------------
\* StatusError.Error

\* the rendering without the empty-message case
StatusErrorError_NoEmptyCase(err) ==
    LET code == SprintfD(err.StatusCode)
        text == StatusText(err.StatusCode)
    IN  IF Contains(err.Message, code) /\ Contains(err.Message, text)
        THEN err.Message
        ELSE code \o <<" ">> \o text \o <<":"," ">> \o err.Message

StatusErrorError(err) ==
    LET code == SprintfD(err.StatusCode)
        text == StatusText(err.StatusCode)
    IN  IF Contains(err.Message, code) /\ Contains(err.Message, text)
        THEN err.Message
        ELSE IF err.Message = <<>>
        THEN code \o <<" ">> \o text
        ELSE code \o <<" ">> \o text \o <<":"," ">> \o err.Message

\* err.Error() of the StatusError carried by the returned *url.Error
CallError ==
    /\ pc = "done"
    /\ retErr.kind = "url.Error"
    /\ rendered' = StatusErrorError(retErr.Err)
    /\ pc' = "rendered"
    /\ UNCHANGED <<resp, terr, bodyPos, bodyEOF, bodyReaders, bodyCloses, call,
                   retResp, retErr, gen>>

-----------------------------------------------------------------------------
\* The response checkers.

\* the 2xx test with the bound 300 included
DefaultResponseChecker_Upto300(r) == r.StatusCode >= 200 /\ r.StatusCode <= 300

DefaultResponseChecker(r) == r.StatusCode >= 200 /\ r.StatusCode < 300

\* the allow-list that looks at its first code only
OneOfChecker_FirstOnly(expectedStatuses, r) ==
    expectedStatuses # <<>> /\ Head(expectedStatuses) = r.StatusCode

RECURSIVE OneOfChecker(_, _)
\* the closure CheckStatusOneOf builds over expectedStatuses
OneOfChecker(expectedStatuses, r) ==
    IF expectedStatuses = <<>> THEN FALSE
    ELSE IF Head(expectedStatuses) = r.StatusCode THEN TRUE
    ELSE OneOfChecker(Tail(expectedStatuses), r)

\* checker(resp), for the ResponseChecker values of the model
ApplyChecker(checker, r) ==
    CASE checker.kind = "default" -> DefaultResponseChecker(r)
      [] checker.kind = "oneOf" -> OneOfChecker(checker.expectedStatuses, r)
      [] checker.kind = "below400" -> r.StatusCode < 400
      [] checker.kind = "never" -> FALSE

-----------------------------------------------------------------------------
\* The check entry points.

\* (*url.URL).String, for a URL of scheme, host and path
URLString(u) ==
    (IF u.Scheme # <<>> THEN u.Scheme \o <<":">> ELSE <<>>)
    \o (IF (u.Scheme # <<>> \/ u.Host # <<>>) /\ (u.Host # <<>> \/ u.Path # <<>>)
        THEN <<"/","/">> \o u.Host ELSE <<>>)
    \o (IF u.Path # <<>> /\ Head(u.Path) # "/" /\ u.Host # <<>> THEN <<"/">> ELSE <<>>)
    \o u.Path

\* the body is left alone
NoRead == [reads |-> 0, minPos |-> 0, eof |-> FALSE]

\* what the extractor read, as extractMessage reports it in x
ReadBy(x) == [reads |-> x.reads, minPos |-> x.minPos, eof |-> x.eof]

\* the *url.Error with the sentinels whatever the request
Rejected_AlwaysSentinel(r, x) ==
    [err |-> [kind |-> "url.Error", Op |-> <<"<","u","n","k","n","o","w","n"," ","m","e","t","h","o","d",">">>,
              URL |-> <<"<","u","n","k","n","o","w","n"," ","r","e","q","u","e","s","t",">">>,
              Err |-> [StatusCode |-> r.StatusCode, Message |-> x.msg]],
     io |-> ReadBy(x)]

\* the *url.Error of CheckResponse, x the outcome of extractMessage
Rejected(r, x) ==
    IF r.Request.kind = "nil"
    THEN [err |-> [kind |-> "url.Error", Op |-> <<"<","u","n","k","n","o","w","n"," ","m","e","t","h","o","d",">">>,
                   URL |-> <<"<","u","n","k","n","o","w","n"," ","r","e","q","u","e","s","t",">">>,
                   Err |-> [StatusCode |-> r.StatusCode, Message |-> x.msg]],
          io |-> ReadBy(x)]
    ELSE [err |-> [kind |-> "url.Error", Op |-> r.Request.Method,
                   URL |-> URLString(r.Request.URL),
                   Err |-> [StatusCode |-> r.StatusCode, Message |-> x.msg]],
          io |-> ReadBy(x)]

\* the body digested before the checker is asked
CheckResponse_ExtractFirst(r, checker) ==
    IF ApplyChecker(checker, r)
    THEN [err |-> NilErr, io |-> ReadBy(extractMessage(r))]
    ELSE Rejected(r, extractMessage(r))

\* CheckResponse(resp, checker): the error returned, and what was read of
\* the body (io)
CheckResponse(r, checker) ==
    IF ApplyChecker(checker, r) THEN [err |-> NilErr, io |-> NoRead]
    ELSE Rejected(r, extractMessage(r))

CheckStatus(r) == CheckResponse(r, [kind |-> "default"])

CheckStatusOneOf(r, expectedStatuses) ==
    CheckResponse(r, [kind |-> "oneOf", expectedStatuses |-> expectedStatuses])

\* the return of Check that leaves the body open
CheckReturn_NeverClose(r, res) ==
    IF res.err.kind # "nil"
    THEN [resp |-> NilResp, err |-> res.err, io |-> res.io, closes |-> 0]
    ELSE [resp |-> r, err |-> NilErr, io |-> res.io, closes |-> 0]

\* the return of Check, res the error at hand after the status check
CheckReturn(r, res) ==
    IF res.err.kind # "nil"
    THEN [resp |-> NilResp, err |-> res.err, io |-> res.io,
          closes |-> IF r.kind # "nil" /\ r.Body.kind # "nil" THEN 1 ELSE 0]
    ELSE [resp |-> r, err |-> NilErr, io |-> res.io, closes |-> 0]

\* the check that runs the status check whatever the transport said
Check_StatusFirst(r, err) ==
    CheckReturn(r, IF r.kind # "nil" /\ r.Body.kind # "nil" THEN CheckStatus(r)
                   ELSE [err |-> err, io |-> NoRead])

\* Check(resp, err): the pair returned, what was read of the body, and the
\* number of calls of resp.Body.Close
Check(r, err) ==
    CheckReturn(r, IF err.kind = "nil" THEN CheckStatus(r)
                   ELSE [err |-> err, io |-> NoRead])

\* The reads an entry point made of resp.Body.  A pass of the extractor
\* leaves the stream at any offset from io.minPos on: io.Copy stops at the
\* end of the stream, the JSON decoder reads by buffers and may stop
\* anywhere after the value it decoded.
BodyRead(io) ==
    IF io.reads = 0
    THEN UNCHANGED <<bodyPos, bodyEOF, bodyReaders>>
    ELSE /\ bodyReaders' = bodyReaders + io.reads
         /\ \E pos \in io.minPos..Len(resp.Body.data), eof \in BOOLEAN :
               /\ io.eof => eof
               /\ eof => pos = Len(resp.Body.data)
               /\ bodyPos' = pos
               /\ bodyEOF' = eof

\* the return of CheckResponse, CheckStatus or CheckStatusOneOf
ReturnErr(res) ==
    /\ retErr' = res.err
    /\ BodyRead(res.io)

\* the return of Check
ReturnPair(res) ==
    /\ retResp' = res.resp
    /\ retErr' = res.err
    /\ BodyRead(res.io)
    /\ bodyCloses' = bodyCloses + res.closes

\* a response the transport delivered without error, body in place
Delivered ==
    /\ pc = "received"
    /\ terr.kind = "nil"
    /\ resp.kind # "nil"
    /\ resp.Body.kind # "nil"

\* the checkers callers hand to CheckResponse
Checkers == {[kind |-> "default"], [kind |-> "below400"], [kind |-> "never"]}

CallCheckResponse ==
    /\ Delivered
    /\ \E checker \in Checkers :
          /\ ReturnErr(CheckResponse(resp, checker))
          /\ call' = [fn |-> "CheckResponse", checker |-> checker]
    /\ pc' = "done"
    /\ UNCHANGED <<resp, terr, bodyCloses, retResp, rendered, gen>>

CallCheckStatus ==
    /\ Delivered
    /\ ReturnErr(CheckStatus(resp))
    /\ call' = [fn |-> "CheckStatus"]
    /\ pc' = "done"
    /\ UNCHANGED <<resp, terr, bodyCloses, retResp, rendered, gen>>

\* the status codes callers list in CheckStatusOneOf
AllowCodes == {200, 404, 500}

CodeLists == UNION { [1..n -> AllowCodes] : n \in 0..MaxCodes }

CallCheckStatusOneOf ==
    /\ Delivered
    /\ \E expectedStatuses \in CodeLists :
          /\ ReturnErr(CheckStatusOneOf(resp, expectedStatuses))
          /\ call' = [fn |-> "CheckStatusOneOf", expectedStatuses |-> expectedStatuses]
    /\ pc' = "done"
    /\ UNCHANGED <<resp, terr, bodyCloses, retResp, rendered, gen>>

CallCheck ==
    /\ pc = "received"
    /\ terr.kind = "nil" => (resp.kind # "nil" /\ resp.Body.kind # "nil")
    /\ ReturnPair(Check(resp, terr))
    /\ call' = [fn |-> "Check"]
    /\ pc' = "done"
    /\ UNCHANGED <<resp, terr, rendered, gen>>

-----------------------------------------------------------------------------
\* The checks of responses of every status, content type and request.

StatusCodes == {-1, 199, 200, 204, 299, 300, 404, 500}

ContentTypes ==
    { <<>>, <<"t","e","x","t","/","p","l","a","i","n">>, <<"t","e","x","t","/","h","t","m","l">>, <<"a","p","p","l","i","c","a","t","i","o","n","/","j","s","o","n">>,
      <<"a","p","p","l","i","c","a","t","i","o","n","/","o","c","t","e","t","-","s","t","r","e","a","m">> }

Bodies ==
    { <<>>, <<"E","r","r","o","r"," ","4","0","4"," ","(","N","o","t"," ","F","o","u","n","d",")","!","!","1">>, <<"{","\"","f","o","o","\"",":"," ","\"","b","a","r","\"",","," ","\"","b","a","z","\"",":"," ","\"","q","u","u","x","\"","}">>,
      <<"{","\"","a","\"",":"," ","1","}"," ","x">> }

Requests ==
    { NilRequest,
      [kind |-> "req", Method |-> <<"G","E","T">>,
       URL |-> [Scheme |-> <<"h","t","t","p">>, Host |-> <<"x">>, Path |-> <<"/","y">>]],
      [kind |-> "req", Method |-> <<"P","O","S","T">>,
       URL |-> [Scheme |-> <<>>, Host |-> <<>>, Path |-> <<>>]] }

Responses ==
    { [kind |-> "resp", StatusCode |-> sc, ContentType |-> ct,
       Body |-> [kind |-> "body", data |-> b], Request |-> rq] :
        sc \in StatusCodes, ct \in ContentTypes, b \in Bodies, rq \in Requests }

\* a transport error, as http.Get returns it
TransportErr == [kind |-> "transport", text |-> <<"d","i","a","l"," ","t","c","p",":"," ","c","o","n","n","e","c","t","i","o","n"," ","r","e","f","u","s","e","d">>]

\* what accompanies a transport error: no response, or one the caller
\* built, with or without a body
FailedResponses ==
    { NilResp,
      [kind |-> "resp", StatusCode |-> 500, ContentType |-> <<"t","e","x","t","/","p","l","a","i","n">>,
       Body |-> NilBody, Request |-> NilRequest],
      [kind |-> "resp", StatusCode |-> 200, ContentType |-> <<"t","e","x","t","/","p","l","a","i","n">>,
       Body |-> [kind |-> "body", data |-> <<"p","a","r","t","i","a","l">>], Request |-> NilRequest],
      [kind |-> "resp", StatusCode |-> 404, ContentType |-> <<"a","p","p","l","i","c","a","t","i","o","n","/","j","s","o","n">>,
       Body |-> [kind |-> "body", data |-> <<"{","\"","a","\"",":"," ","1","}"," ","x">>], Request |-> NilRequest] }

Init ==
    /\ \/ resp \in Responses /\ terr = NilErr
       \/ resp \in FailedResponses /\ terr = TransportErr
    /\ bodyPos = 0
    /\ bodyEOF = FALSE
    /\ bodyReaders = 0
    /\ bodyCloses = 0
    /\ pc = "received"
    /\ call = [fn |-> "none"]
    /\ retResp = NilResp
    /\ retErr = NilErr
    /\ rendered = <<>>
    /\ gen = [kind |-> "none"]

Next ==
    \/ CallCheckResponse
    \/ CallCheckStatus
    \/ CallCheckStatusOneOf
    \/ CallCheck
    \/ CallError

Spec == Init /\ [][Next]_vars

\* the entry point has returned
Returned == pc \in {"done", "rendered"}

\* the entry point that returned is CheckResponse, CheckStatus or
\* CheckStatusOneOf
ReturnedDirect ==
    Returned /\ call.fn \in {"CheckResponse", "CheckStatus", "CheckStatusOneOf"}

\* the entry point returned the error of a rejected status
ReturnedRejection == Returned /\ call.fn # "none" /\ retErr.kind = "url.Error"

\* nothing was read of the body and it was not closed
BodyUntouched == bodyReaders = 0 /\ bodyPos = 0 /\ ~bodyEOF /\ bodyCloses = 0

\* C1: DefaultResponseChecker accepts exactly the codes 200..299; CheckStatus
\* returns nil for exactly those codes, an error for every other, and what
\* CheckResponse returns with the default checker.
C1_DefaultClassifier ==
    /\ (Returned /\ call.fn = "CheckStatus") =>
          /\ (retErr.kind = "nil") <=> (resp.StatusCode \in 200..299)
          /\ (retErr.kind # "nil") <=> (resp.StatusCode < 200 \/ resp.StatusCode >= 300)
          /\ retErr = CheckResponse(resp, [kind |-> "default"]).err
    /\ (Returned /\ call.fn = "CheckResponse" /\ call.checker.kind = "default") =>
          ((retErr.kind = "nil") <=> (resp.StatusCode \in 200..299))
    /\ resp.kind # "nil" =>
          (DefaultResponseChecker(resp) <=> resp.StatusCode \in 200..299)

\* CheckStatus rejected the first code past the 2xx family
C1_Witness ==
    /\ pc = "done"
    /\ call.fn = "CheckStatus"
    /\ resp.StatusCode = 300
    /\ retErr.kind = "url.Error"

\* C2: Check with a transport error returns that error, and the body is not
\* read; whenever Check returns an error the response returned is nil and a
\* body that was there has been closed once.
C2_CheckErrorPath ==
    (Returned /\ call.fn = "Check") =>
        /\ terr.kind # "nil" => (retErr = terr /\ bodyReaders = 0 /\ bodyPos = 0 /\ ~bodyEOF)
        /\ retErr.kind # "nil" =>
              /\ retResp = NilResp
              /\ (resp.kind # "nil" /\ resp.Body.kind # "nil") => bodyCloses = 1
              /\ (resp.kind = "nil" \/ resp.Body.kind = "nil") => bodyCloses = 0

\* Check passed a transport error on and closed the body of the response
\* that came with it, unread
C2_Witness ==
    /\ pc = "done"
    /\ call.fn = "Check"
    /\ terr = TransportErr
    /\ retErr = TransportErr
    /\ resp.kind # "nil"
    /\ resp.Body.kind # "nil"
    /\ resp.StatusCode = 404
    /\ bodyCloses = 1
    /\ bodyReaders = 0

\* C3 as stated: a response rejected through CheckResponse, CheckStatus or
\* CheckStatusOneOf has its body read at most once and closed on return.
C3_ClosedOnReturn ==
    (ReturnedDirect /\ retErr.kind = "url.Error") => (bodyReaders <= 1 /\ bodyCloses >= 1)

\* C3 amended: a rejected response has its body read by at most one pass of
\* the extractor; CheckResponse, CheckStatus and CheckStatusOneOf return with
\* the body not closed, and Check alone returns with the body closed once.
C3_ReadOnceClosedByCheck ==
    ReturnedRejection =>
        /\ bodyReaders <= 1
        /\ bodyReaders = extractMessage(resp).reads
        /\ call.fn = "Check" => bodyCloses = 1
        /\ call.fn # "Check" => bodyCloses = 0

\* CheckStatus rejected a response, read its body and left it open
C3_Witness ==
    /\ pc = "done"
    /\ call.fn = "CheckStatus"
    /\ retErr.kind = "url.Error"
    /\ bodyReaders = 1
    /\ bodyPos > 0
    /\ bodyCloses = 0

\* C4: when the checker accepts, the entry point returns nil and the body is
\* neither read nor closed; Check without transport error then returns the
\* very response it was given.
C4_AcceptPathUntouched ==
    /\ (ReturnedDirect /\ retErr.kind = "nil") => BodyUntouched
    /\ (Returned /\ call.fn = "CheckResponse" /\ ApplyChecker(call.checker, resp)) =>
          (retErr.kind = "nil" /\ BodyUntouched)
    /\ (Returned /\ call.fn = "CheckStatus" /\ resp.StatusCode \in 200..299) =>
          (retErr.kind = "nil" /\ BodyUntouched)
    /\ (Returned /\ call.fn = "CheckStatusOneOf"
          /\ \E i \in 1..Len(call.expectedStatuses) :
                call.expectedStatuses[i] = resp.StatusCode) =>
          (retErr.kind = "nil" /\ BodyUntouched)
    /\ (Returned /\ call.fn = "Check" /\ terr.kind = "nil"
          /\ resp.StatusCode \in 200..299) =>
          (retErr.kind = "nil" /\ retResp = resp /\ BodyUntouched)

\* Check handed back an accepted response with its body unread and open
C4_Witness ==
    /\ pc = "done"
    /\ call.fn = "Check"
    /\ terr.kind = "nil"
    /\ resp.StatusCode = 204
    /\ resp.Body.data # <<>>
    /\ retResp = resp
    /\ retErr.kind = "nil"
    /\ BodyUntouched

\* C5: a rejected response gives a *url.Error whose Err is a StatusError with
\* the status code of the response and the digest of its body; Op and URL
\* are the method and URL of the request, or the sentinels without request.
C5_RejectionError ==
    /\ (Returned /\ call.fn # "none" /\ terr.kind = "nil" /\ retErr.kind # "nil") =>
          /\ retErr.kind = "url.Error"
          /\ retErr.Err.StatusCode = resp.StatusCode
          /\ retErr.Err.Message = extractMessage(resp).msg
          /\ NormalizedType(resp.ContentType) = TextPlain =>
                retErr.Err.Message = resp.Body.data
          /\ resp.Request.kind = "nil" =>
                (retErr.Op = <<"<","u","n","k","n","o","w","n"," ","m","e","t","h","o","d",">">> /\ retErr.URL = <<"<","u","n","k","n","o","w","n"," ","r","e","q","u","e","s","t",">">>)
          /\ resp.Request.kind # "nil" =>
                (retErr.Op = resp.Request.Method /\ retErr.URL = URLString(resp.Request.URL))
          /\ (resp.Request.kind # "nil" /\ resp.Request.Method = <<"G","E","T">>) =>
                retErr.URL = <<"h","t","t","p",":","/","/","x","/","y">>
          /\ (resp.Request.kind # "nil" /\ resp.Request.Method = <<"P","O","S","T">>) =>
                retErr.URL = <<>>
    /\ (Returned /\ call.fn = "CheckStatus" /\ resp.StatusCode \notin 200..299) =>
          retErr.kind = "url.Error"
    /\ (Returned /\ call.fn = "CheckResponse" /\ ~ApplyChecker(call.checker, resp)) =>
          retErr.kind = "url.Error"

\* a response without request was rejected with the sentinels in the error
C5_Witness ==
    /\ pc = "done"
    /\ call.fn = "CheckStatus"
    /\ resp.Request.kind = "nil"
    /\ resp.StatusCode = 500
    /\ retErr.kind = "url.Error"
    /\ retErr.Op = <<"<","u","n","k","n","o","w","n"," ","m","e","t","h","o","d",">">>
    /\ retErr.URL = <<"<","u","n","k","n","o","w","n"," ","r","e","q","u","e","s","t",">">>
    /\ retErr.Err.StatusCode = 500
    /\ retErr.Err.Message = <<"E","r","r","o","r"," ","4","0","4"," ","(","N","o","t"," ","F","o","u","n","d",")","!","!","1">>

\* C7: CheckStatusOneOf returns nil exactly when the status code is among
\* the codes listed, whatever their order and repetitions; with no code
\* listed every status is rejected.
C7_OneOf ==
    (Returned /\ call.fn = "CheckStatusOneOf") =>
        /\ (retErr.kind = "nil") <=>
              (resp.StatusCode \in
                  {call.expectedStatuses[i] : i \in 1..Len(call.expectedStatuses)})
        /\ call.expectedStatuses = <<>> => retErr.kind = "url.Error"

\* a code listed second was accepted
C7_Witness ==
    /\ pc = "done"
    /\ call.fn = "CheckStatusOneOf"
    /\ call.expectedStatuses = <<404, 200>>
    /\ resp.StatusCode = 200
    /\ retErr.kind = "nil"

\* C9 as stated: whenever a check rejects a response, all of the body has
\* been read by the time the error is returned, whatever the content type.
C9_ConsumedEntirely ==
    (ReturnedRejection /\ terr.kind = "nil") => bodyPos = Len(resp.Body.data)

-----------------------------------------------------------------------------
\* The digests of rejected responses of every content type and JSON body.

\* Content-Type values are assembled from a media type and parameters.  Each
\* part states what it is: ok tells a well-formed part, type is the media
\* type a well-formed non-vendor part denotes.
PlainTypes ==
    { [text |-> <<"t","e","x","t","/","p","l","a","i","n">>, ok |-> TRUE, type |-> <<"t","e","x","t","/","p","l","a","i","n">>],
      [text |-> <<"T","e","x","t","/","H","T","M","L">>, ok |-> TRUE, type |-> <<"t","e","x","t","/","h","t","m","l">>],
      [text |-> <<"t","e","x","t","/","h","t","m","l">>, ok |-> TRUE, type |-> <<"t","e","x","t","/","h","t","m","l">>],
      [text |-> <<" ","a","p","p","l","i","c","a","t","i","o","n","/","j","s","o","n"," ">>, ok |-> TRUE, type |-> <<"a","p","p","l","i","c","a","t","i","o","n","/","j","s","o","n">>],
      [text |-> <<"a","p","p","l","i","c","a","t","i","o","n","/","p","r","o","b","l","e","m","+","j","s","o","n">>, ok |-> TRUE,
       type |-> <<"a","p","p","l","i","c","a","t","i","o","n","/","p","r","o","b","l","e","m","+","j","s","o","n">>],
      [text |-> <<"i","m","a","g","e","/","p","n","g">>, ok |-> TRUE, type |-> <<"i","m","a","g","e","/","p","n","g">>],
      [text |-> <<>>, ok |-> FALSE, type |-> <<>>],
      [text |-> <<"t","e","x","t","/">>, ok |-> FALSE, type |-> <<>>],
      [text |-> <<"t","e","x","t"," ","h","t","m","l">>, ok |-> FALSE, type |-> <<>>] }

\* the structured-syntax suffixes a vendor type application/vnd.api carries
VendorSuffixes ==
    { <<>>, <<<<"j","s","o","n">>>>, <<<<"x","m","l">>>>, <<<<"p","l","a","i","n">>>>, <<<<"l","d">>, <<"j","s","o","n">>>>,
      <<<<"j","s","o","n">>, <<"x">>>> }

MediaParams ==
    { [text |-> <<>>, ok |-> TRUE],
      [text |-> <<";"," ","c","h","a","r","s","e","t","=","u","t","f","-","8">>, ok |-> TRUE],
      [text |-> <<";">>, ok |-> TRUE],
      [text |-> <<";"," ","c","h","a","r","s","e","t">>, ok |-> FALSE],
      [text |-> <<";"," ","a","=","1",";"," ","a","=","2">>, ok |-> FALSE] }

HeaderParts ==
    { [vendor |-> FALSE, base |-> b, suffixes |-> <<>>, params |-> p] :
        b \in PlainTypes, p \in MediaParams }
    \cup
    { [vendor |-> TRUE, base |-> [text |-> <<"a","p","p","l","i","c","a","t","i","o","n","/","v","n","d",".","a","p","i">>, ok |-> TRUE,
                                  type |-> <<"a","p","p","l","i","c","a","t","i","o","n","/","v","n","d",".","a","p","i">>],
       suffixes |-> s, params |-> p] :
        s \in VendorSuffixes, p \in MediaParams }

\* the Content-Type value the parts spell
HeaderText(h) ==
    h.base.text
    \o Concat([i \in 1..Len(h.suffixes) |-> <<"+">> \o h.suffixes[i]])
    \o h.params.text

\* bodies that every branch of the extractor digests differently, with the
\* digest of the text/html and of the application/json branch
BranchBodies ==
    { [data |-> <<"{","\"","a","\"",":"," "," ","\"","<","b",">","x","<","/","b",">","\"","}">>, html |-> <<"{","\"","a","\"",":"," ","\"","x","\"","}">>, json |-> <<"a",":"," ","<","b",">","x","<","/","b",">">>],
      [data |-> <<>>, html |-> <<>>, json |-> <<"<","i","n","v","a","l","i","d"," ","j","s","o","n"," ","i","n"," ","r","e","s","p","o","n","s","e"," ","b","o","d","y",":"," ","E","O","F",">">>],
      [data |-> <<" ","p","l","a","i","n"," "," ","t","e","x","t","\n">>, html |-> <<"p","l","a","i","n"," ","t","e","x","t">>,
       json |-> <<"<","i","n","v","a","l","i","d"," ","j","s","o","n"," ","i","n"," ","r","e","s","p","o","n","s","e"," ","b","o","d","y",":"," ","i","n","v","a","l","i","d"," ","c","h","a","r","a","c","t","e","r",">">>],
      [data |-> <<"E","r","r","o","r"," ","4","0","4","<","b","r",">","<","b","r",">"," ","T","h","a","t"," ","i","s"," "," ","a","n"," ","e","r","r","o","r",".">>,
       html |-> <<"E","r","r","o","r"," ","4","0","4",":"," ","T","h","a","t"," ","i","s"," ","a","n"," ","e","r","r","o","r",".">>,
       json |-> <<"<","i","n","v","a","l","i","d"," ","j","s","o","n"," ","i","n"," ","r","e","s","p","o","n","s","e"," ","b","o","d","y",":"," ","i","n","v","a","l","i","d"," ","c","h","a","r","a","c","t","e","r",">">>] }

\* the keys of generated JSON objects, in ascending byte order
KeysAscending == << <<"Z">>, <<"b">>, <<"b","a","z">>, <<"f","o","o">> >>

\* the values of generated JSON objects: the JSON text and its %v rendering
JSONValues ==
    << [raw |-> <<"\"","b","a","r","\"">>, text |-> <<"b","a","r">>],
       [raw |-> <<"\"","q","u","u","x","\"">>, text |-> <<"q","u","u","x">>],
       [raw |-> <<"4","0","4">>, text |-> <<"4","0","4">>] >>

\* a member of a generated object: the index of its key and of its value
PairSet == { [k |-> k, v |-> v] : k \in 1..Len(KeysAscending), v \in 1..Len(JSONValues) }

PairSeqs == UNION { [1..n -> PairSet] : n \in 0..MaxPairs }

\* the JSON text of an object with the members pairs, in that order
Serialize(pairs) ==
    <<"{">>
    \o Join([i \in 1..Len(pairs) |->
                <<"\"">> \o KeysAscending[pairs[i].k] \o <<"\"",":"," ">> \o JSONValues[pairs[i].v].raw],
            <<","," ">>)
    \o <<"}">>

\* the ways a body is made of the text s of an object; the first three still
\* begin with the whole object, the last two end inside it
Variant(s, variant) ==
    CASE variant = "whole" -> s
      [] variant = "padded" -> <<" ","\n">> \o s \o <<"\n">>
      [] variant = "trailing" -> s \o <<" ","x">>
      [] variant = "truncated" -> SubSeq(s, 1, Len(s) - 1)
      [] variant = "cut" -> SubSeq(s, 1, Len(s) \div 2)

Variants == {"whole", "padded", "trailing", "truncated", "cut"}

ShapeOf(variant) == IF variant \in {"whole", "padded", "trailing"} THEN "object" ELSE "malformed"

\* JSON bodies written out, with what they are: an object (and its digest),
\* the value null, another JSON value, or no JSON value at all
LiteralBodies ==
    { [data |-> <<"{","\"","n","\"",":"," ","n","u","l","l",","," ","\"","l","\"",":"," ","[","1",","," ","\"","a","\"","]",","," ","\"","m","\"",":"," ","{","\"","z","\"",":"," ","t","r","u","e",","," ","\"","y","\"",":"," ","1","2","3","0","0","0","0","}","}">>,
       shape |-> "object", digest |-> <<"l",":"," ","[","1"," ","a","]",","," ","m",":"," ","m","a","p","[","y",":","1",".","2","3","e","+","0","6"," ","z",":","t","r","u","e","]",","," ","n",":"," ","<","n","i","l",">">>],
      [data |-> <<"{","\"","f","o","o","\"",":"," ","\"","b","a","r","\"",","," ","\"","b","a","z","\"",":"," ","\"","q","u","u","x","\"","}">>, shape |-> "object",
       digest |-> <<"b","a","z",":"," ","q","u","u","x",","," ","f","o","o",":"," ","b","a","r">>],
      [data |-> <<"{","\"","s","t","a","t","u","s","\"",":"," ","4","0","4",","," ","\"","e","r","r","o","r","\"",":"," ","\"","N","o","t"," ","F","o","u","n","d","\"","}">>, shape |-> "object",
       digest |-> <<"e","r","r","o","r",":"," ","N","o","t"," ","F","o","u","n","d",","," ","s","t","a","t","u","s",":"," ","4","0","4">>],
      [data |-> <<"{"," ","}">>, shape |-> "object", digest |-> <<>>],
      [data |-> <<"n","u","l","l">>, shape |-> "null", digest |-> <<>>],
      [data |-> <<"n","u","l","l","\n">>, shape |-> "null", digest |-> <<>>],
      [data |-> <<"[","1",","," ","2","]">>, shape |-> "other", digest |-> <<>>],
      [data |-> <<"\"","s","t","r","\"">>, shape |-> "other", digest |-> <<>>],
      [data |-> <<"1","2">>, shape |-> "other", digest |-> <<>>],
      [data |-> <<"t","r","u","e">>, shape |-> "other", digest |-> <<>>],
      [data |-> <<>>, shape |-> "malformed", digest |-> <<>>],
      [data |-> <<" ","\n">>, shape |-> "malformed", digest |-> <<>>],
      [data |-> <<"{","\"","a","\""," ","1","}">>, shape |-> "malformed", digest |-> <<>>],
      [data |-> <<"{","a",":"," ","1","}">>, shape |-> "malformed", digest |-> <<>>],
      [data |-> <<"{","\"","a","\"",":"," ","1",",","}">>, shape |-> "malformed", digest |-> <<>>],
      [data |-> <<"{","\"","a","\"",":"," ","n","u","l">>, shape |-> "malformed", digest |-> <<>>],
      [data |-> <<"<","h","t","m","l",">","o","o","p","s","<","/","h","t","m","l",">">>, shape |-> "malformed", digest |-> <<>>] }

\* the content types of the JSON bodies
JSONHeaders == { <<"a","p","p","l","i","c","a","t","i","o","n","/","j","s","o","n">>, <<"a","p","p","l","i","c","a","t","i","o","n","/","v","n","d",".","a","p","i","+","j","s","o","n",";"," ","c","h","a","r","s","e","t","=","u","t","f","-","8">> }

TestRequest ==
    [kind |-> "req", Method |-> <<"G","E","T">>,
     URL |-> [Scheme |-> <<"h","t","t","p">>, Host |-> <<"x">>, Path |-> <<"/","y">>]]

ResponseOf(sc, ct, body) ==
    [kind |-> "resp", StatusCode |-> sc, ContentType |-> ct,
     Body |-> [kind |-> "body", data |-> body], Request |-> TestRequest]

InitExtract ==
    /\ \/ \E h \in HeaderParts, b \in BranchBodies, sc \in {404, 500} :
            /\ resp = ResponseOf(sc, HeaderText(h), b.data)
            /\ gen = [kind |-> "header", hdr |-> h, body |-> b]
       \/ \E pairs \in PairSeqs, variant \in Variants :
            /\ resp = ResponseOf(500, <<"a","p","p","l","i","c","a","t","i","o","n","/","j","s","o","n">>, Variant(Serialize(pairs), variant))
            /\ gen = [kind |-> "pairs", pairs |-> pairs, variant |-> variant,
                      shape |-> ShapeOf(variant)]
       \/ \E ct \in JSONHeaders, b \in LiteralBodies :
            /\ resp = ResponseOf(500, ct, b.data)
            /\ gen = [kind |-> "literal", shape |-> b.shape, digest |-> b.digest]
    /\ terr = NilErr
    /\ bodyPos = 0
    /\ bodyEOF = FALSE
    /\ bodyReaders = 0
    /\ bodyCloses = 0
    /\ pc = "received"
    /\ call = [fn |-> "none"]
    /\ retResp = NilResp
    /\ retErr = NilErr
    /\ rendered = <<>>

NextExtract ==
    \/ CallCheckStatus
    \/ CallError

SpecExtract == InitExtract /\ [][NextExtract]_vars

\* the media type the parts of a Content-Type value denote for the switch:
\* text/plain when a part is malformed; for the vendor type "application/"
\* and everything after its first "+" if it has one; the type itself otherwise
ExpectedType(h) ==
    IF ~h.base.ok \/ ~h.params.ok THEN <<"t","e","x","t","/","p","l","a","i","n">>
    ELSE IF h.vendor /\ h.suffixes # <<>>
    THEN <<"a","p","p","l","i","c","a","t","i","o","n","/">> \o Join(h.suffixes, <<"+">>)
    ELSE h.base.type

\* C10: the branch of the extractor follows from the Content-Type value: an
\* absent or malformed value counts as text/plain; application/vnd.X+Y counts
\* as application/Y, Y being all that follows the first "+", and a vendor
\* type without "+" as itself; text/plain gives the body as it is, text/html
\* and application/json their digests, every other type the empty digest;
\* the check returns its status error in every case.
C10_BranchSelection ==
    (Returned /\ gen.kind = "header") =>
        /\ retErr.kind = "url.Error"
        /\ retErr.Err.StatusCode = resp.StatusCode
        /\ ExpectedType(gen.hdr) = <<"t","e","x","t","/","p","l","a","i","n">> => retErr.Err.Message = gen.body.data
        /\ ExpectedType(gen.hdr) = <<"t","e","x","t","/","h","t","m","l">> => retErr.Err.Message = gen.body.html
        /\ ExpectedType(gen.hdr) = <<"a","p","p","l","i","c","a","t","i","o","n","/","j","s","o","n">> => retErr.Err.Message = gen.body.json
        /\ ExpectedType(gen.hdr) \notin {<<"t","e","x","t","/","p","l","a","i","n">>, <<"t","e","x","t","/","h","t","m","l">>, <<"a","p","p","l","i","c","a","t","i","o","n","/","j","s","o","n">>}
              => (retErr.Err.Message = <<>> /\ bodyReaders = 0)

\* a vendor type with two "+" was not taken for JSON
C10_Witness ==
    /\ pc = "done"
    /\ gen.kind = "header"
    /\ resp.ContentType = <<"a","p","p","l","i","c","a","t","i","o","n","/","v","n","d",".","a","p","i","+","l","d","+","j","s","o","n">>
    /\ resp.Body.data = <<"{","\"","a","\"",":"," "," ","\"","<","b",">","x","<","/","b",">","\"","}">>
    /\ retErr.kind = "url.Error"
    /\ retErr.Err.Message = <<>>

RECURSIVE ExpectedFields(_, _)
\* the fields "key: value" of the object with the members pairs, from the
\* k-th key of KeysAscending on: one field for each key that occurs, with
\* the value of its last occurrence
ExpectedFields(pairs, k) ==
    IF k > Len(KeysAscending) THEN <<>>
    ELSE (IF \E i \in 1..Len(pairs) : pairs[i].k = k
          THEN LET last == CHOOSE i \in 1..Len(pairs) :
                              pairs[i].k = k /\ \A j \in (i + 1)..Len(pairs) : pairs[j].k # k
               IN  << KeysAscending[k] \o <<":"," ">> \o JSONValues[pairs[last].v].text >>
          ELSE <<>>)
         \o ExpectedFields(pairs, k + 1)

\* the digest of the object with the members pairs
ExpectedDigest(pairs) == Join(ExpectedFields(pairs, 1), <<","," ">>)

InvalidJSONPrefix == <<"<","i","n","v","a","l","i","d"," ","j","s","o","n"," ","i","n"," ","r","e","s","p","o","n","s","e"," ","b","o","d","y",":">>

\* the check returned the error of a rejected JSON response
JSONRejection == Returned /\ gen.kind \in {"pairs", "literal"}

\* C8 as stated: the digest of a JSON body is made of the members of the
\* object, "key: value" in ascending key order joined by ", "; a body that
\* is no JSON object gives the placeholder; the error is the status error.
C8_PlaceholderUnlessObject ==
    JSONRejection =>
        /\ retErr.kind = "url.Error"
        /\ (gen.kind = "pairs" /\ gen.shape = "object") =>
              retErr.Err.Message = ExpectedDigest(gen.pairs)
        /\ (gen.kind = "literal" /\ gen.shape = "object") =>
              retErr.Err.Message = gen.digest
        /\ gen.shape # "object" => HasPrefix(retErr.Err.Message, InvalidJSONPrefix)

\* C8 amended: as stated, except that the placeholder is the digest when
\* decoding fails (no JSON value, or a value that is neither object nor
\* null); the JSON value null decodes without error and gives the empty
\* digest.
C8_JSONDigest ==
    JSONRejection =>
        /\ retErr.kind = "url.Error"
        /\ retErr.Err.StatusCode = resp.StatusCode
        /\ (gen.kind = "pairs" /\ gen.shape = "object") =>
              retErr.Err.Message = ExpectedDigest(gen.pairs)
        /\ (gen.kind = "literal" /\ gen.shape = "object") =>
              retErr.Err.Message = gen.digest
        /\ gen.shape \in {"malformed", "other"} =>
              HasPrefix(retErr.Err.Message, InvalidJSONPrefix)
        /\ gen.shape = "null" => retErr.Err.Message = <<>>

\* an object with its keys in descending order was digested in ascending
\* order
C8_Witness ==
    /\ pc = "done"
    /\ gen.kind = "pairs"
    /\ gen.variant = "whole"
    /\ resp.Body.data = <<"{","\"","f","o","o","\"",":"," ","\"","b","a","r","\"",","," ","\"","b","a","z","\"",":"," ","\"","q","u","u","x","\"","}">>
    /\ retErr.kind = "url.Error"
    /\ retErr.Err.Message = <<"b","a","z",":"," ","q","u","u","x",","," ","f","o","o",":"," ","b","a","r">>

-----------------------------------------------------------------------------
\* Rendering of StatusError values of every code and message.

RenderCodes == {-1, 0, 200, 299, 400, 404, 500, 999}

Fragments ==
    { <<"4","0","4">>, <<"N","o","t"," ","F","o","u","n","d">>, <<"5","0","0">>, <<"I","n","t","e","r","n","a","l"," ","S","e","r","v","e","r"," ","E","r","r","o","r">>, <<"b","a","d"," ","f","i","e","l","d">>, <<"E","r","r","o","r"," ","4","0","4"," ","(","N","o","t"," ","F","o","u","n","d",")","!","!","1">>,
      <<" ">>, <<"4","0">>, <<"N","o","t">>, <<":"," ">>, <<"9","9","9","0">> }

FragmentSeqs == UNION { [1..n -> Fragments] : n \in 0..MaxFragments }

Messages == { Concat(fs) : fs \in FragmentSeqs }

InitRender ==
    /\ resp = NilResp
    /\ terr = NilErr
    /\ bodyPos = 0
    /\ bodyEOF = FALSE
    /\ bodyReaders = 0
    /\ bodyCloses = 0
    /\ pc = "done"
    /\ call = [fn |-> "none"]
    /\ retResp = NilResp
    /\ \E c \in RenderCodes, m \in Messages :
          retErr = [kind |-> "url.Error", Op |-> <<"G","E","T">>, URL |-> <<"h","t","t","p",":","/","/","x","/","y">>,
                    Err |-> [StatusCode |-> c, Message |-> m]]
    /\ rendered = <<>>
    /\ gen = [kind |-> "none"]

NextRender == CallError

SpecRender == InitRender /\ [][NextRender]_vars

\* C6: StatusError.Error returns the message unchanged when it contains both
\* the decimal code and the reason phrase; otherwise "<code> <text>" for an
\* empty message and "<code> <text>: <message>" for any other; the documented
\* renderings of 404, 500 and 400 come out literally.
C6_RenderRule ==
    pc = "rendered" =>
        LET msg == retErr.Err.Message
            sc == retErr.Err.StatusCode
            code == SprintfD(sc)
            text == StatusText(sc)
            both == Contains(msg, code) /\ Contains(msg, text)
        IN  /\ both => rendered = msg
            /\ (~both /\ msg = <<>>) => rendered = code \o <<" ">> \o text
            /\ (~both /\ msg # <<>>) => rendered = code \o <<" ">> \o text \o <<":"," ">> \o msg
            /\ (sc = 404 /\ msg = <<"E","r","r","o","r"," ","4","0","4"," ","(","N","o","t"," ","F","o","u","n","d",")","!","!","1">>) => rendered = <<"E","r","r","o","r"," ","4","0","4"," ","(","N","o","t"," ","F","o","u","n","d",")","!","!","1">>
            /\ (sc = 500 /\ msg = <<>>) => rendered = <<"5","0","0"," ","I","n","t","e","r","n","a","l"," ","S","e","r","v","e","r"," ","E","r","r","o","r">>
            /\ (sc = 400 /\ msg = <<"b","a","d"," ","f","i","e","l","d">>) => rendered = <<"4","0","0"," ","B","a","d"," ","R","e","q","u","e","s","t",":"," ","b","a","d"," ","f","i","e","l","d">>
            /\ (sc = 404 /\ msg = <<"N","o","t"," ","F","o","u","n","d">>) => rendered = <<"4","0","4"," ","N","o","t"," ","F","o","u","n","d",":"," ","N","o","t"," ","F","o","u","n","d">>
            /\ (sc = 999 /\ msg = <<"9","9","9","0">>) => rendered = <<"9","9","9","0">>

\* a message that echoes code and reason phrase was rendered unchanged
C6_Witness ==
    /\ pc = "rendered"
    /\ retErr.Err.StatusCode = 404
    /\ retErr.Err.Message = <<"E","r","r","o","r"," ","4","0","4"," ","(","N","o","t"," ","F","o","u","n","d",")","!","!","1">>
    /\ rendered = <<"E","r","r","o","r"," ","4","0","4"," ","(","N","o","t"," ","F","o","u","n","d",")","!","!","1">>

====
